---- MODULE Spec2Model ----
(* TableState of js_dash_table/assets/dash-table.js: the three data tiers   *)
(* (original -> filtered -> virtual), the filter / sort / paginate cycle,   *)
(* the selection sets and the dirty flags, driven by filter-input, header,  *)
(* page-button and checkbox events.                                         *)
EXTENDS Integers, Sequences, FiniteSets, TLC

(***************************************************************************)
(* Bounds of the model.                                                    *)
(***************************************************************************)
\* longest data.original the model supplies
MaxRows == 3
\* largest config.page_size the model configures
MaxPageSize == 2

(***************************************************************************)
(* JavaScript values.                                                      *)
(***************************************************************************)
\* the value `undefined`; numbers of the model are the naturals, so that a
\* field, an identity or a selection member is either a natural or Undef
Undef == 0 - 1
\* the value NaN (a numeric conversion that failed)
NaN == 0 - 2

IsNum(x) == x >= 0

\* x < y of JavaScript over numbers, undefined and NaN
JsLess(x, y) == IsNum(x) /\ IsNum(y) /\ x < y

\* a sequence without its element at position i (1-based): splice(i-1, 1)
RemoveAt(s, i) == [j \in 1..(Len(s) - 1) |-> IF j < i THEN s[j] ELSE s[j + 1]]

\* Array.prototype.indexOf, 1-based, 0 when absent
IndexOf(s, x) ==
    IF \E i \in 1..Len(s) : s[i] = x
    THEN CHOOSE i \in 1..Len(s) : s[i] = x /\ \A j \in 1..(i - 1) : s[j] # x
    ELSE 0

Includes(s, x) == \E i \in 1..Len(s) : s[i] = x

\* the members of an array
Range(s) == {s[i] : i \in 1..Len(s)}

(***************************************************************************)
(* Rows: a JavaScript object is its properties in insertion order.         *)
(***************************************************************************)
\* config.row_index_key
row_index_key == "row_index"

\* item[key]
Get(row, key) ==
    IF \E i \in 1..Len(row) : row[i].k = key
    THEN row[CHOOSE i \in 1..Len(row) : row[i].k = key].v
    ELSE Undef

\* an assignment item[key] = value that is lost
PutLost(row, key, value) == row

\* item[key] = value
Put(row, key, value) ==
    IF \E i \in 1..Len(row) : row[i].k = key
    THEN [i \in 1..Len(row) |-> IF row[i].k = key THEN [k |-> key, v |-> value] ELSE row[i]]
    ELSE Append(row, [k |-> key, v |-> value])

\* Object.keys(item)
Keys(row) == [i \in 1..Len(row) |-> row[i].k]

(***************************************************************************)
(* Filter texts.  A text is its tokens (the matches of /"[^"]*"|\S+/g) and *)
(* whether white space surrounds them: "" is no tokens and no padding,     *)
(* "  " is no tokens with padding.                                         *)
(***************************************************************************)
Text(pad, toks) == [pad |-> pad, toks |-> toks]
EmptyText == Text(FALSE, <<>>)
\* config.filter of a configuration that has no filter key
NoText == Text(FALSE, <<"undefined">>)

\* String.prototype.trim
Trim(t) == Text(FALSE, t.toks)

\* `value || ""` for a filter text or undefined
OrEmpty(t) == IF t = NoText \/ t = EmptyText THEN EmptyText ELSE t

\* the texts a filter-input event can carry: empty, white space only, one the
\* default grammar accepts, one that matches no row, one it cannot parse
FilterTexts ==
    { EmptyText,
      Text(TRUE, <<>>),
      Text(FALSE, <<"b", ">", "0">>),
      Text(FALSE, <<"a", ">", "7">>),
      Text(FALSE, <<"a", ">">>) }

\* the numeric value of a token used as the right operand of < <= > >=
ToNumber(tok) ==
    CASE tok = "0" -> 0
      [] tok = "1" -> 1
      [] tok = "7" -> 7
      [] OTHER -> NaN

KnownOperations == {">", ">=", "<", "<=", "=", "==", "!=", "!=="}

\* key.replace(/^["']|["']$/g, ''): a quote at either end of the key is dropped
StripQuotes(tok) ==
    CASE tok = "\"a\"" -> "a"
      [] tok = "'b'" -> "b"
      [] OTHER -> tok

\* the switch of TABLE_FILTERS.default for one item; the value operand is a
\* string, so === against a numeric field is false and !== is true
Matches(item, key, operation, value) ==
    LET field == Get(item, key)
        num   == ToNumber(value)
    IN CASE operation = ">"  -> JsLess(num, field)
         [] operation = ">=" -> IsNum(field) /\ IsNum(num) /\ field >= num
         [] operation = "<"  -> JsLess(field, num)
         [] operation = "<=" -> IsNum(field) /\ IsNum(num) /\ field <= num
         [] operation \in {"=", "=="} -> FALSE
         [] operation \in {"!=", "!=="} -> TRUE
         [] OTHER -> FALSE

\* select the elements of a sequence that satisfy Test, in order
RECURSIVE Where(_, _, _, _, _)
Where(rows, hp, key, operation, value) ==
    IF rows = <<>> THEN <<>>
    ELSE LET rest == Where(Tail(rows), hp, key, operation, value)
         IN IF Matches(hp[Head(rows)], key, operation, value)
            THEN <<Head(rows)>> \o rest ELSE rest

\* what a filter routine hands back: it rejects, or it returns rows, some of
\* which may be objects it created (fresh: their heap cells)
Rejected == [ok |-> FALSE, rows |-> <<>>, fresh |-> <<>>]
Returned(rows) == [ok |-> TRUE, rows |-> rows, fresh |-> <<>>]

\* TABLE_FILTERS.default(filter, data)
DefaultFilter(filter, rows, hp) ==
    LET splits == filter.toks IN
    IF Len(splits) < 3 THEN Rejected
    ELSE IF Len(splits) > 3 THEN Rejected
    ELSE LET key == StripQuotes(splits[1])
             operation == splits[2]
             value == splits[3]
         IN IF rows # <<>> /\ operation \notin KnownOperations
            THEN Rejected
            ELSE Returned(Where(rows, hp, key, operation, value))

(***************************************************************************)
(* Sorting.                                                                *)
(***************************************************************************)
\* Compare with the order flag ignored: every key sorts ascending
CompareIgnoringOrder(first, second, sortBy) ==
    LET decides(i) == \/ JsLess(Get(first, sortBy[i].key), Get(second, sortBy[i].key))
                      \/ JsLess(Get(second, sortBy[i].key), Get(first, sortBy[i].key))
    IN IF \E i \in 1..Len(sortBy) : decides(i)
       THEN LET i == CHOOSE j \in 1..Len(sortBy) :
                         decides(j) /\ \A h \in 1..(j - 1) : ~decides(h)
            IN IF JsLess(Get(first, sortBy[i].key), Get(second, sortBy[i].key))
               THEN 0 - 1 ELSE 1
       ELSE 0

\* the comparator handed to Array.prototype.sort by sortData: negative when
\* first goes before second, positive when after, 0 when no key decides
Compare(first, second, sortBy) ==
    LET decides(i) == \/ JsLess(Get(first, sortBy[i].key), Get(second, sortBy[i].key))
                      \/ JsLess(Get(second, sortBy[i].key), Get(first, sortBy[i].key))
    IN IF \E i \in 1..Len(sortBy) : decides(i)
       THEN LET i == CHOOSE j \in 1..Len(sortBy) :
                         decides(j) /\ \A h \in 1..(j - 1) : ~decides(h)
                key == sortBy[i].key
                order == sortBy[i].order
            IN IF JsLess(Get(first, key), Get(second, key))
               THEN (IF order = "asc" THEN 0 - 1 ELSE 1)
               ELSE (IF order = "asc" THEN 1 ELSE 0 - 1)
       ELSE 0

\* InsertRow of a sort that is not stable: an element is placed before the
\* elements already placed that compare equal to it
RECURSIVE InsertRowUnstable(_, _, _, _)
InsertRowUnstable(sorted, id, hp, sortBy) ==
    IF sorted = <<>> THEN <<id>>
    ELSE LET last == sorted[Len(sorted)]
         IN IF Compare(hp[last], hp[id], sortBy) >= 0
            THEN Append(InsertRowUnstable(SubSeq(sorted, 1, Len(sorted) - 1), id, hp, sortBy), last)
            ELSE Append(sorted, id)

\* Array.prototype.sort is stable (ECMAScript 2019): an element is placed
\* after every element already placed that does not compare greater
RECURSIVE InsertRow(_, _, _, _)
InsertRow(sorted, id, hp, sortBy) ==
    IF sorted = <<>> THEN <<id>>
    ELSE LET last == sorted[Len(sorted)]
         IN IF Compare(hp[last], hp[id], sortBy) > 0
            THEN Append(InsertRow(SubSeq(sorted, 1, Len(sorted) - 1), id, hp, sortBy), last)
            ELSE Append(sorted, id)

RECURSIVE SortRows(_, _, _, _)
SortRows(done, todo, hp, sortBy) ==
    IF todo = <<>> THEN done
    ELSE SortRows(InsertRow(done, Head(todo), hp, sortBy), Tail(todo), hp, sortBy)

\* TableState.sortData: data.virtual sorted in place
sortData(virtual, hp, sortBy) == SortRows(<<>>, virtual, hp, sortBy)

(***************************************************************************)
(* Selections.                                                             *)
(***************************************************************************)
\* String(n) of a natural as its decimal digits
RECURSIVE Digits(_)
Digits(n) == IF n < 10 THEN <<n>> ELSE Append(Digits(n \div 10), n % 10)

\* the default order of Array.prototype.sort(): undefined goes last, every
\* other pair is ordered by the code units of the two strings
RECURSIVE LexLess(_, _)
LexLess(s, t) ==
    IF t = <<>> THEN FALSE
    ELSE IF s = <<>> THEN TRUE
    ELSE IF Head(s) # Head(t) THEN Head(s) < Head(t)
    ELSE LexLess(Tail(s), Tail(t))

DefaultLess(x, y) ==
    IF x = Undef THEN FALSE
    ELSE IF y = Undef THEN TRUE
    ELSE LexLess(Digits(x), Digits(y))

RECURSIVE InsertDefault(_, _)
InsertDefault(sorted, x) ==
    IF sorted = <<>> THEN <<x>>
    ELSE LET last == sorted[Len(sorted)]
         IN IF DefaultLess(x, last)
            THEN Append(InsertDefault(SubSeq(sorted, 1, Len(sorted) - 1), x), last)
            ELSE Append(sorted, x)

RECURSIVE DefaultSort(_)
DefaultSort(s) ==
    IF s = <<>> THEN <<>>
    ELSE InsertDefault(DefaultSort(SubSeq(s, 1, Len(s) - 1)), s[Len(s)])

\* a selection mode that is undefined, null or false rather than a string
ModeUndefined == "(undefined)"
ModeNull == "(null)"
ModeFalse == "(false)"

\* the parameter default {mode = "multi"}: it replaces undefined, nothing else
ModeOrDefault(given) == IF given = ModeUndefined THEN "multi" ELSE given

\* updateSelections that never empties the array before it adds
updateSelectionsKeeping(selected, index, given) ==
    LET mode == ModeOrDefault(given)
        includes == IndexOf(selected, index)
        toggled ==
            IF includes # 0 THEN RemoveAt(selected, includes)
            ELSE IF mode \in {"single", "multi"} THEN Append(selected, index) ELSE selected
    IN DefaultSort(toggled)

\* updateSelections that leaves a member in place instead of removing it
updateSelectionsWithoutRemoval(selected, index, given) ==
    LET mode == ModeOrDefault(given)
        includes == IndexOf(selected, index)
        toggled ==
            IF includes # 0 THEN selected
            ELSE LET kept == IF mode # "multi" THEN <<>> ELSE selected
                 IN IF mode \in {"single", "multi"} THEN Append(kept, index) ELSE kept
    IN DefaultSort(toggled)

\* updateSelections that adds the candidate under any mode
updateSelectionsUnguarded(selected, index, given) ==
    LET mode == ModeOrDefault(given)
        includes == IndexOf(selected, index)
        toggled ==
            IF includes # 0 THEN RemoveAt(selected, includes)
            ELSE Append(IF mode # "multi" THEN <<>> ELSE selected, index)
    IN DefaultSort(toggled)

\* TableState.updateSelections(selected, index, {mode})
updateSelections(selected, index, given) ==
    LET mode == ModeOrDefault(given)
        includes == IndexOf(selected, index)
        toggled ==
            IF includes # 0 THEN RemoveAt(selected, includes)
            ELSE LET kept == IF mode # "multi" THEN <<>> ELSE selected
                 IN IF mode \in {"single", "multi"} THEN Append(kept, index) ELSE kept
    IN DefaultSort(toggled)

(***************************************************************************)
(* Pages.                                                                  *)
(***************************************************************************)
\* TableState.getLastPage for a virtual tier of `length` rows
getLastPage(length, pageSize) ==
    LET pageCount == IF length = pageSize THEN 1 ELSE length \div pageSize
    IN (IF length % pageSize # 0 THEN pageCount + 1 ELSE pageCount) - 1

\* Array.prototype.slice(from, to) with 0-based bounds
Slice(s, from, to) ==
    LET lo == IF from > Len(s) THEN Len(s) ELSE from
        hi == IF to > Len(s) THEN Len(s) ELSE to
    IN IF hi <= lo THEN <<>> ELSE SubSeq(s, lo + 1, hi)

\* getRows with a slice that ends one row early
getRowsShort(virtual, page, pageSize) ==
    Slice(virtual, page * pageSize, page * pageSize + pageSize - 1)

\* the rows TableState.getRows renders: the slice of data.virtual of the page
getRows(virtual, page, pageSize) == Slice(virtual, page * pageSize, page * pageSize + pageSize)

(***************************************************************************)
(* The state of one TableState.                                            *)
(***************************************************************************)
VARIABLES
    config,               \* this.config
    data,                 \* this.data: original, filtered, virtual (row objects)
    heap,                 \* the row objects: object -> its properties
    lastVirtualization,   \* this.lastVirtualization: <<>>, or <<filter text>>; its
                          \* element 1, the sort key, is stored and never read
    pendingConfigChange,  \* this.pendingConfigChange
    pendingHeaderChange,  \* this.pendingHeaderChange
    invalid,              \* this.filter.classList contains "invalid"
    pc,                   \* "constructed": the constructor's update() has not run yet
    emitted,              \* what the last completed cycle handed to the render layer
    call,                 \* the filter routine call of the last completed cycle
    selection,            \* an array handed to updateSelections on its own, the
                          \* mode it is toggled under and the last call made
    resolution,           \* a column list and a column selection handed to
                          \* updateColumns on its own, and what they were before
    inflight,             \* the calls of updateData suspended at `await
                          \* filterFunc(...)`: what each one holds in its locals
    worker                \* one BackgroundWorker, its Worker and the runtime in it

tableVars == <<config, data, heap, lastVirtualization, pendingConfigChange,
               pendingHeaderChange, invalid, pc, emitted, call>>

vars == <<config, data, heap, lastVirtualization, pendingConfigChange,
          pendingHeaderChange, invalid, pc, emitted, call, selection, resolution, inflight,
          worker>>

\* the variables of the specifications of single methods
pureVars == <<selection, resolution, inflight, worker>>

\* the fields of `this` as one value, for the methods below
This == [config |-> config, data |-> data, heap |-> heap,
         lastVirtualization |-> lastVirtualization,
         pendingConfigChange |-> pendingConfigChange,
         pendingHeaderChange |-> pendingHeaderChange,
         invalid |-> invalid]

\* the objects data.original can hold, and the object a custom routine creates
RowIds == 1..MaxRows
FreshId == MaxRows + 1

\* this.lastVirtualization[0]
LastFilter(S) ==
    IF S.lastVirtualization = <<>> THEN NoText ELSE S.lastVirtualization[1]

Names(columns) == [i \in 1..Len(columns) |-> columns[i].name]

\* Synthesized with a descriptor that is not visible
SynthesizedHidden(columnName) ==
    [id |-> columnName, name |-> columnName, visible |-> FALSE, selectable |-> TRUE]

\* the descriptor updateColumns makes up for a key without a configured column
Synthesized(columnName) ==
    [id |-> columnName, name |-> columnName, visible |-> TRUE, selectable |-> TRUE]

\* DescriptorOf that never looks a configured column up
DescriptorOfNoLookup(columns, columnName) == Synthesized(columnName)

\* columnsByName[columnName] || {...}
DescriptorOf(columns, columnName) ==
    IF \E i \in 1..Len(columns) : columns[i].name = columnName
    THEN columns[CHOOSE i \in 1..Len(columns) :
                    /\ columns[i].name = columnName
                    /\ \A j \in (i + 1)..Len(columns) : columns[j].name # columnName]
    ELSE Synthesized(columnName)

\* the elements of a sequence that are not x, in order
RECURSIVE Without(_, _)
Without(s, x) ==
    IF s = <<>> THEN <<>>
    ELSE IF Head(s) = x THEN Without(Tail(s), x)
    ELSE <<Head(s)>> \o Without(Tail(s), x)

\* PruneColumns that removes nothing
PruneColumnsKeeping(selected, todo, originalColumns, finalColumns) == selected

\* the loop of updateColumns over config.selected_columns.slice(): an index is
\* kept when the name it designated in the previous list is in the new list
RECURSIVE PruneColumns(_, _, _, _)
PruneColumns(selected, todo, originalColumns, finalColumns) ==
    IF todo = <<>> THEN selected
    ELSE LET columnIndex == Head(todo)
             name == IF columnIndex + 1 \in 1..Len(originalColumns)
                     THEN originalColumns[columnIndex + 1] ELSE "undefined"
         IN IF Includes(finalColumns, name)
            THEN PruneColumns(selected, Tail(todo), originalColumns, finalColumns)
            ELSE LET at == IndexOf(selected, columnIndex)
                     \* splice(indexOf(columnIndex), 1): indexOf of an index
                     \* already removed is -1 and splice(-1, 1) drops the last
                     cut == IF at = 0 THEN Len(selected) ELSE at
                 IN PruneColumns(RemoveAt(selected, cut), Tail(todo),
                                 originalColumns, finalColumns)

\* TableState.updateColumns(original)
updateColumns(S, original) ==
    LET cfg == S.config
        originalColumns == Names(cfg.columns.virtual)
        filtered == S.data.filtered
        first == IF filtered = <<>> THEN <<>> ELSE S.heap[filtered[1]]
        indexPreserved ==
            IF original THEN TRUE
            ELSE filtered # <<>> /\ Get(first, row_index_key) # Undef
        \* item[rowIndexKey] = index, for every row unless the first one has it
        newHeap ==
            IF original \/ indexPreserved THEN S.heap
            ELSE [id \in DOMAIN S.heap |->
                    IF Includes(filtered, id)
                    THEN Put(S.heap[id], row_index_key,
                             (CHOOSE i \in 1..Len(filtered) :
                                 /\ filtered[i] = id
                                 /\ \A j \in (i + 1)..Len(filtered) : filtered[j] # id) - 1)
                    ELSE S.heap[id]]
        keys == IF filtered = <<>> THEN <<>> ELSE Keys(first)
        newColumns == IF keys = <<>> THEN Names(cfg.columns.original) ELSE keys
        shown == Without(newColumns, row_index_key)
        virtualColumns ==
            IF original THEN cfg.columns.original
            ELSE [i \in 1..Len(shown) |-> DescriptorOf(cfg.columns.original, shown[i])]
        finalColumns == Names(virtualColumns)
        selectedColumns ==
            PruneColumns(cfg.selected_columns, cfg.selected_columns,
                         originalColumns, finalColumns)
    IN [S EXCEPT
          !.heap = newHeap,
          !.config.columns.virtual = virtualColumns,
          !.config.selected_columns = selectedColumns,
          !.config.selected_rows = IF indexPreserved THEN @ ELSE <<>>,
          !.pendingHeaderChange =
              \/ @
              \/ selectedColumns # cfg.selected_columns
              \/ originalColumns # finalColumns,
          !.pendingConfigChange = @ \/ ~indexPreserved]

(***************************************************************************)
(* The filter routine the configuration resolves to.                       *)
(***************************************************************************)
\* a routine registered under another namespace (the README's alasql routine,
\* js_pandas query): it runs an external engine, so for a text it may reject,
\* return no row, or return a row object of its own without an identity,
\* which may have no property at all
CustomFilter(filter, rows, hp) ==
    { Rejected,
      Returned(<<>>),
      [ok |-> TRUE, rows |-> <<FreshId>>,
       fresh |-> (FreshId :> <<[k |-> "n", v |-> Len(rows)]>>)],
      [ok |-> TRUE, rows |-> <<FreshId>>, fresh |-> (FreshId :> <<>>)] }

\* what the call `await filterFunc(filter, this.data.original)` can produce
Outcomes(S, filter) ==
    IF S.config.filter_namespace = "default"
    THEN {DefaultFilter(filter, S.data.original, S.heap)}
    ELSE CustomFilter(filter, S.data.original, S.heap)

\* the trimmed filter text of the cycle
CycleFilter(S) == Trim(OrEmpty(S.config.filter))

\* whether updateData runs its filter pass / calls the filter routine
FilterPass(S) == LastFilter(S) # CycleFilter(S)
CallsRoutine(S) == FilterPass(S) /\ CycleFilter(S) # EmptyText

(***************************************************************************)
(* The update cycle.                                                       *)
(***************************************************************************)
\* the branch of updateData for an empty trimmed filter text
Unfiltered(S) ==
    [S EXCEPT !.data.filtered = S.data.original, !.invalid = FALSE]

\* the try branch of updateData: the routine returned its rows
Accepted(S, outcome) ==
    [S EXCEPT !.data.filtered = outcome.rows,
              !.heap = [id \in DOMAIN S.heap |->
                          IF id \in DOMAIN outcome.fresh
                          THEN outcome.fresh[id] ELSE S.heap[id]],
              !.invalid = FALSE]

\* Fallback that does not add the 'invalid' marker
FallbackWithoutMarker(S) ==
    [S EXCEPT !.data.filtered = S.data.original]

\* the catch branch of updateData: the routine threw or rejected
Fallback(S) ==
    [S EXCEPT !.data.filtered = S.data.original, !.invalid = TRUE]

\* newVirtualization[0] as the filter pass leaves it: the raw text for an empty
\* filter, the trimmed text after a success, "" after a failure
StoredFilter(S, outcome) ==
    IF CycleFilter(S) = EmptyText THEN OrEmpty(S.config.filter)
    ELSE IF outcome.ok THEN CycleFilter(S)
    ELSE EmptyText

\* the page reset of updateData when the filter pass changed the row count
ResetPage(S, originalLength) ==
    IF originalLength # Len(S.data.filtered)
    THEN [S EXCEPT !.config.page = 0, !.pendingConfigChange = TRUE]
    ELSE S

\* the heap once the objects no tier refers to any more are reclaimed: the
\* rows a routine created for an earlier pass
Collected(hp, tiers) ==
    [id \in DOMAIN hp |->
        IF id \in Range(tiers.original) \cup Range(tiers.filtered) THEN hp[id] ELSE <<>>]

\* FilterStage that treats every pass as one over the original rows
FilterStageAsOriginal(S, outcome) ==
    LET originalLength == Len(S.data.filtered)
        filter == CycleFilter(S)
        S1 == IF filter = EmptyText THEN Unfiltered(S)
              ELSE IF outcome.ok THEN Accepted(S, outcome)
              ELSE Fallback(S)
        S2 == ResetPage(updateColumns(S1, TRUE), originalLength)
    IN [S2 EXCEPT !.lastVirtualization = <<StoredFilter(S, outcome)>>,
                  !.heap = Collected(@, S2.data)]

\* the filter pass of TableState.updateData, given what the routine produced
FilterStage(S, outcome) ==
    LET originalLength == Len(S.data.filtered)
        filter == CycleFilter(S)
        original == filter = EmptyText \/ ~outcome.ok
        S1 == IF filter = EmptyText THEN Unfiltered(S)
              ELSE IF outcome.ok THEN Accepted(S, outcome)
              ELSE Fallback(S)
        S2 == ResetPage(updateColumns(S1, original), originalLength)
    IN [S2 EXCEPT !.lastVirtualization = <<StoredFilter(S, outcome)>>,
                  !.heap = Collected(@, S2.data)]

\* SortStage without the copy of data.filtered: data.virtual is sorted as it is
SortStageWithoutCopy(S) ==
    [S EXCEPT !.data.virtual =
        IF Len(S.config.sort_by) # 0
        THEN sortData(S.data.virtual, S.heap, S.config.sort_by)
        ELSE S.data.virtual]

\* the copy and sort at the end of TableState.updateData
SortStage(S) ==
    [S EXCEPT !.data.virtual =
        IF Len(S.config.sort_by) # 0
        THEN sortData(S.data.filtered, S.heap, S.config.sort_by)
        ELSE S.data.filtered]

\* TableState.updateData; newVirtualization is a new array, so the outer
\* comparison with this.lastVirtualization never finds them identical
updateData(S, outcome) ==
    SortStage(IF FilterPass(S) THEN FilterStage(S, outcome) ELSE S)

\* Emission that hands the header over in every cycle
EmissionOfEveryHeader(S) ==
    [config |-> S.pendingConfigChange,
     header |-> TRUE,
     body |-> getRows(S.data.virtual, S.config.page, S.config.page_size)]

\* what TableState.update hands over after updateData
Emission(S) ==
    [config |-> S.pendingConfigChange,
     header |-> S.pendingHeaderChange,
     body |-> getRows(S.data.virtual, S.config.page, S.config.page_size)]

\* TableState.update: the state it leaves
update(S, outcome) ==
    [updateData(S, outcome) EXCEPT !.pendingConfigChange = FALSE,
                                   !.pendingHeaderChange = FALSE]

Become(S) ==
    /\ config' = S.config
    /\ data' = S.data
    /\ heap' = S.heap
    /\ lastVirtualization' = S.lastVirtualization
    /\ pendingConfigChange' = S.pendingConfigChange
    /\ pendingHeaderChange' = S.pendingHeaderChange
    /\ invalid' = S.invalid

NoCall == [invoked |-> FALSE, outcome |-> Rejected]

\* one whole update() started from S, every await completing in turn
Cycle(S) ==
    \E outcome \in (IF CallsRoutine(S) THEN Outcomes(S, CycleFilter(S)) ELSE {Rejected}) :
        /\ Become(update(S, outcome))
        /\ emitted' = Emission(updateData(S, outcome))
        /\ call' = IF CallsRoutine(S)
                   THEN [invoked |-> TRUE, outcome |-> outcome]
                   ELSE NoCall

(***************************************************************************)
(* Event handlers.                                                         *)
(***************************************************************************)
\* clickButton whose next button does not stop at the last page
clickButtonUnclamped(S, button) ==
    LET page0 == S.config.page
        page == IF button = "prev" /\ page0 > 0 THEN page0 - 1
                ELSE IF button = "next" /\ page0 < MaxRows THEN page0 + 1
                ELSE page0
    IN IF page # page0
       THEN [S EXCEPT !.config.page = page, !.pendingConfigChange = TRUE]
       ELSE S

\* TableState.clickButton for the prev / next button
clickButton(S, button) ==
    LET page0 == S.config.page
        page == IF button = "prev" /\ page0 > 0 THEN page0 - 1
                ELSE IF button = "next"
                        /\ page0 < getLastPage(Len(S.data.virtual), S.config.page_size)
                THEN page0 + 1
                ELSE page0
    IN IF page # page0
       THEN [S EXCEPT !.config.page = page, !.pendingConfigChange = TRUE]
       ELSE S

\* TableState.getPaginatedItem(index): a row object, or 0 for undefined
getPaginatedItem(S, index) ==
    LET at == S.config.page * S.config.page_size + index + 1
    IN IF at \in 1..Len(S.data.virtual) THEN S.data.virtual[at] ELSE 0

\* TableState.clickCheckbox for a row or a column checkbox
clickCheckbox(S, type, index) ==
    IF type = "column-check"
    THEN [S EXCEPT !.config.selected_columns =
                       updateSelections(@, index, S.config.column_selectable),
                   !.pendingConfigChange = TRUE]
    ELSE [S EXCEPT !.config.selected_rows =
                       updateSelections(@, Get(S.heap[getPaginatedItem(S, index)], row_index_key),
                                        S.config.row_selectable),
                   !.pendingConfigChange = TRUE]

\* TableState.clickColumn for the header at position index (0-based)
\* clickColumn without the clearing of the list in single-sort mode
clickColumnAppending(S, index) ==
    LET key == S.config.columns.virtual[index + 1].name
        sortBy == S.config.sort_by
        includes == IF \E i \in 1..Len(sortBy) : sortBy[i].key = key
                    THEN CHOOSE i \in 1..Len(sortBy) :
                            sortBy[i].key = key /\ \A j \in 1..(i - 1) : sortBy[j].key # key
                    ELSE 0
        newSortBy ==
            IF includes # 0
            THEN IF sortBy[includes].order = "desc"
                 THEN RemoveAt(sortBy, Len(sortBy))
                 ELSE [sortBy EXCEPT ![includes].order = "desc"]
            ELSE Append(sortBy, [key |-> key, order |-> "asc"])
    IN [S EXCEPT !.config.sort_by = newSortBy,
                 !.pendingConfigChange = TRUE,
                 !.pendingHeaderChange = TRUE]

clickColumn(S, index) ==
    LET key == S.config.columns.virtual[index + 1].name
        sortBy == S.config.sort_by
        includes == IF \E i \in 1..Len(sortBy) : sortBy[i].key = key
                    THEN CHOOSE i \in 1..Len(sortBy) :
                            sortBy[i].key = key /\ \A j \in 1..(i - 1) : sortBy[j].key # key
                    ELSE 0
        newSortBy ==
            IF includes # 0
            THEN IF sortBy[includes].order = "desc"
                 \* sortBy.indexOf(includes) looks up a number among the
                 \* sorter objects: -1, and splice(-1, 1) removes the last
                 THEN RemoveAt(sortBy, Len(sortBy))
                 ELSE [sortBy EXCEPT ![includes].order = "desc"]
            ELSE Append(IF S.config.sort_mode = "single" THEN <<>> ELSE sortBy,
                        [key |-> key, order |-> "asc"])
    IN [S EXCEPT !.config.sort_by = newSortBy,
                 !.pendingConfigChange = TRUE,
                 !.pendingHeaderChange = TRUE]

\* the tail of TableState.onClick: update() when a flag is set
AfterClick(S) ==
    IF S.pendingConfigChange \/ S.pendingHeaderChange
    THEN Cycle(S)
    ELSE Become(S) /\ UNCHANGED <<emitted, call>>

(***************************************************************************)
(* Initial states: a TableState just constructed, update() not yet run.    *)
(***************************************************************************)
\* the configured columns; a is configured as not selectable, so its header
\* checkbox is hidden (getColumns) and cannot be clicked
ColumnA == [id |-> "a", name |-> "a", visible |-> TRUE, selectable |-> FALSE]
ColumnB == [id |-> "b", name |-> "b", visible |-> TRUE, selectable |-> TRUE]

\* the row the server supplies at position i (1-based), with or without the
\* identity field
SuppliedRow(i, withIndex) ==
    LET fields == << [k |-> "a", v |-> ((i + 1) \div 2) % 2],
                     [k |-> "b", v |-> i % 2] >>
    IN IF withIndex THEN Append(fields, [k |-> row_index_key, v |-> i - 1]) ELSE fields

InitialHeap(n, withIndex) ==
    [id \in RowIds \cup {FreshId} |->
        IF id <= n THEN SuppliedRow(id, withIndex) ELSE <<>>]

\* the configurations the model constructs a TableState with: whether the
\* supplied rows carry the identity field, the sort mode, the mode of both
\* selections, and the namespace the filter routine is resolved in
Configurations ==
    { [withIndex |-> TRUE,  sort |-> "single", select |-> "multi",
       namespace |-> "default"],
      [withIndex |-> FALSE, sort |-> "multi",  select |-> "single",
       namespace |-> "default"],
      [withIndex |-> TRUE,  sort |-> "single", select |-> "single",
       namespace |-> "custom"] }

\* no array is toggled on its own
NoSelection == [selected |-> <<>>, mode |-> "multi", before |-> <<>>, index |-> Undef]

\* no request is made of the background worker
NoWorker == [lastID |-> 1, calls |-> <<>>, requests |-> {}, responses |-> {},
             run |-> [done |-> FALSE]]

\* updateColumns is not run on its own
NoResolution == [virtual |-> <<>>, selected |-> <<>>, before |-> <<>>,
                 header |-> FALSE, step |-> "none"]

\* new TableState(config, data) for n supplied rows under configuration c
\* with the initial page `page`, this.config.columns being `columns` once the
\* constructor has normalised it
ConstructedAt(n, pageSize, c, columns, page) ==
        /\ config = [page |-> page, page_size |-> pageSize,
                     sort_by |-> <<>>, sort_mode |-> c.sort,
                     row_selectable |-> c.select, selected_rows |-> <<>>,
                     column_selectable |-> c.select, selected_columns |-> <<>>,
                     filter |-> NoText, filter_namespace |-> c.namespace,
                     columns |-> columns]
        /\ data = [original |-> [i \in 1..n |-> i], filtered |-> <<>>, virtual |-> <<>>]
        /\ heap = InitialHeap(n, c.withIndex)
        /\ lastVirtualization = <<>>
        /\ pendingConfigChange = TRUE
        /\ pendingHeaderChange = TRUE
        /\ invalid = FALSE
        /\ pc = "constructed"
        /\ emitted = [config |-> FALSE, header |-> FALSE, body |-> <<>>]
        /\ call = NoCall

\* the same with the default of `page`
ConstructedWith(n, pageSize, c, columns) ==
    ConstructedAt(n, pageSize, c, columns, 0)

\* the same with the column list <<a, b>> configured
Constructed(n, pageSize, c) ==
    ConstructedWith(n, pageSize, c, [original |-> <<ColumnA, ColumnB>>,
                                     virtual |-> <<ColumnA, ColumnB>>])

Init ==
    /\ \E n \in 0..MaxRows, pageSize \in {1, MaxPageSize}, c \in Configurations :
          Constructed(n, pageSize, c)
    /\ selection = NoSelection
    /\ resolution = NoResolution
    /\ inflight = <<>>
    /\ worker = NoWorker

(***************************************************************************)
(* Actions: one event handled to the end of its cycle.                     *)
(***************************************************************************)
\* the update() the constructor starts
FirstUpdate ==
    /\ pc = "constructed"
    /\ pc' = "idle"
    /\ Cycle(This)
    /\ UNCHANGED pureVars

\* TableState.onFilterChange
OnFilterChange ==
    /\ pc = "idle"
    /\ \E text \in FilterTexts :
          Cycle([This EXCEPT !.config.filter = text, !.pendingConfigChange = TRUE])
    /\ UNCHANGED <<pc, pureVars>>

\* TableState.onClick on the prev or next button
OnClickButton ==
    /\ pc = "idle"
    /\ \E button \in {"prev", "next"} : AfterClick(clickButton(This, button))
    /\ UNCHANGED <<pc, pureVars>>

\* TableState.onClick on the checkbox of a rendered row
OnClickRowCheck ==
    /\ pc = "idle"
    /\ \E index \in 0..(Len(emitted.body) - 1) :
          AfterClick(clickCheckbox(This, "row-check", index))
    /\ UNCHANGED <<pc, pureVars>>

\* TableState.onClick on the checkbox of a column header
OnClickColumnCheck ==
    /\ pc = "idle"
    /\ \E index \in 0..(Len(config.columns.virtual) - 1) :
          /\ config.columns.virtual[index + 1].selectable
          /\ AfterClick(clickCheckbox(This, "column-check", index))
    /\ UNCHANGED <<pc, pureVars>>

\* TableState.onClick on a column header
OnClickColumn ==
    /\ pc = "idle"
    /\ \E index \in 0..(Len(config.columns.virtual) - 1) :
          AfterClick(clickColumn(This, index))
    /\ UNCHANGED <<pc, pureVars>>

Next ==
    \/ FirstUpdate
    \/ OnFilterChange
    \/ OnClickButton
    \/ OnClickRowCheck
    \/ OnClickColumnCheck
    \/ OnClickColumn

Spec == Init /\ [][Next]_vars

(***************************************************************************)
(* A TableState constructed without a column list: `columns` omitted (the  *)
(* default {} is kept as it is) or given as the empty array.               *)
(***************************************************************************)
\* config.columns when the key is omitted: the default {}, an object without
\* the keys original and virtual
ColumnsOmitted == [omitted |-> TRUE]

\* config.columns for columns: []
ColumnsEmpty == [original |-> <<>>, virtual |-> <<>>]

\* this.config.columns.virtual is an array
HasColumnList(S) == "virtual" \in DOMAIN S.config.columns

\* updateData up to the call of updateColumns, which throws a TypeError at
\* this.config.columns.virtual.map when there is no such array: data.filtered
\* and the marker have been assigned, nothing after the call has run
ThrownInUpdateColumns(S, outcome) ==
    IF CycleFilter(S) = EmptyText THEN Unfiltered(S)
    ELSE IF outcome.ok THEN Accepted(S, outcome)
    ELSE Fallback(S)

\* update() started from S: the whole cycle, or the cycle up to the TypeError
\* that rejects its promise (no hand-off is made, the flags are not cleared)
UpdateOrThrow(S) ==
    IF HasColumnList(S)
    THEN Cycle(S) /\ pc' = "idle"
    ELSE /\ \E outcome \in (IF CycleFilter(S) # EmptyText
                            THEN Outcomes(S, CycleFilter(S)) ELSE {Rejected}) :
              /\ Become(ThrownInUpdateColumns(S, outcome))
              /\ call' = IF CycleFilter(S) # EmptyText
                         THEN [invoked |-> TRUE, outcome |-> outcome]
                         ELSE NoCall
         /\ pc' = "threw"
         /\ UNCHANGED emitted

SchemalessInit ==
    /\ \E n \in 0..MaxRows, pageSize \in 1..MaxPageSize,
          columns \in {ColumnsOmitted, ColumnsEmpty} :
          ConstructedWith(n, pageSize,
                          [withIndex |-> FALSE, sort |-> "single", select |-> "single",
                           namespace |-> "default"],
                          columns)
    /\ selection = NoSelection
    /\ resolution = NoResolution
    /\ inflight = <<>>
    /\ worker = NoWorker

\* the update() the constructor starts
FirstUpdateSchemaless ==
    /\ pc = "constructed"
    /\ UpdateOrThrow(This)
    /\ UNCHANGED pureVars

\* TableState.onFilterChange, also after a cycle that threw
OnFilterChangeSchemaless ==
    /\ pc \in {"idle", "threw"}
    /\ \E text \in FilterTexts :
          UpdateOrThrow([This EXCEPT !.config.filter = text, !.pendingConfigChange = TRUE])
    /\ UNCHANGED pureVars

SchemalessNext ==
    \/ FirstUpdateSchemaless
    \/ OnFilterChangeSchemaless
    \/ OnClickButton
    \/ OnClickRowCheck
    \/ OnClickColumnCheck
    \/ OnClickColumn

SchemalessSpec == SchemalessInit /\ [][SchemalessNext]_vars

(***************************************************************************)
(* update() with a render layer whose set_props can throw: the hand-offs   *)
(* are calls into dash_clientside, and an exception of one of them ends    *)
(* update() at that statement.                                             *)
(***************************************************************************)
\* the state update() leaves when the hand-off `failed` throws, S being the
\* state after updateData: the flag of a hand-off is assigned false in the
\* statement before its set_props
EndedAt(S, failed) ==
    [S EXCEPT !.pendingConfigChange = FALSE,
              !.pendingHeaderChange = IF failed = "config" THEN @ ELSE FALSE]

\* what update() had handed over when the hand-off `failed` threw; the body
\* is the last statement of the three, so the rendered body is the old one
EmittedBefore(S, failed) ==
    [config |-> failed # "config" /\ S.pendingConfigChange,
     header |-> failed = "body" /\ S.pendingHeaderChange,
     body |-> emitted.body]

\* set_props is called for the artifact
HandsOver(S, artifact) ==
    CASE artifact = "config" -> S.pendingConfigChange
      [] artifact = "header" -> S.pendingHeaderChange
      [] artifact = "body" -> TRUE

\* one update() started from S that completes, or ends at a hand-off that throws
CycleHandingOff(S) ==
    \/ Cycle(S) /\ pc' = "idle"
    \/ \E outcome \in (IF CallsRoutine(S) THEN Outcomes(S, CycleFilter(S)) ELSE {Rejected}),
          failed \in {"config", "header", "body"} :
          /\ HandsOver(updateData(S, outcome), failed)
          /\ Become(EndedAt(updateData(S, outcome), failed))
          /\ emitted' = EmittedBefore(updateData(S, outcome), failed)
          /\ call' = IF CallsRoutine(S)
                     THEN [invoked |-> TRUE, outcome |-> outcome]
                     ELSE NoCall
          /\ pc' = failed

HandoffInit ==
    /\ \E n \in 0..MaxRows, pageSize \in 1..MaxPageSize :
          Constructed(n, pageSize, [withIndex |-> TRUE, sort |-> "single",
                                    select |-> "single", namespace |-> "default"])
    /\ selection = NoSelection
    /\ resolution = NoResolution
    /\ inflight = <<>>
    /\ worker = NoWorker

\* the update() the constructor starts
FirstUpdateHandingOff ==
    /\ pc = "constructed"
    /\ CycleHandingOff(This)
    /\ UNCHANGED pureVars

\* TableState.onFilterChange, also after an update() that a hand-off ended
OnFilterChangeHandingOff ==
    /\ pc # "constructed"
    /\ \E text \in FilterTexts :
          CycleHandingOff([This EXCEPT !.config.filter = text,
                                       !.pendingConfigChange = TRUE])
    /\ UNCHANGED pureVars

HandoffNext ==
    \/ FirstUpdateHandingOff
    \/ OnFilterChangeHandingOff
    \/ OnClickButton

HandoffSpec == HandoffInit /\ [][HandoffNext]_vars

(***************************************************************************)
(* update() with a filter routine that takes time: the routine of another  *)
(* namespace is awaited while the browser goes on dispatching events, and  *)
(* each handler calls update() without waiting for the one before.         *)
(***************************************************************************)
MaxInFlight == 2

\* Resumed that stores the filter text of the configuration as it is now
ResumedStoringCurrent(S, locals, outcome) ==
    LET S1 == IF outcome.ok THEN Accepted(S, outcome) ELSE Fallback(S)
        S2 == ResetPage(updateColumns(S1, ~outcome.ok), locals.originalLength)
    IN SortStage([S2 EXCEPT
                    !.lastVirtualization =
                        <<IF outcome.ok THEN CycleFilter(S) ELSE EmptyText>>,
                    !.heap = Collected(@, S2.data)])

\* the part of updateData after `await filterFunc(...)` for the call that
\* holds `locals`, run on the fields of `this` as they are when it resumes
Resumed(S, locals, outcome) ==
    LET S1 == IF outcome.ok THEN Accepted(S, outcome) ELSE Fallback(S)
        S2 == ResetPage(updateColumns(S1, ~outcome.ok), locals.originalLength)
    IN SortStage([S2 EXCEPT
                    !.lastVirtualization =
                        <<IF outcome.ok THEN locals.filter ELSE EmptyText>>,
                    !.heap = Collected(@, S2.data)])

\* update() called in state S: it runs to its end when updateData does not
\* call the routine, and otherwise is suspended at the call with its locals
Begin(S) ==
    IF CallsRoutine(S)
    THEN /\ Len(inflight) < MaxInFlight
         /\ Become(S)
         /\ inflight' = Append(inflight, [filter |-> CycleFilter(S),
                                          originalLength |-> Len(S.data.filtered)])
         /\ UNCHANGED <<emitted, call>>
    ELSE Cycle(S) /\ UNCHANGED inflight

AsyncInit ==
    /\ \E n \in {MaxRows}, pageSize \in {1, MaxPageSize} :
          Constructed(n, pageSize, [withIndex |-> TRUE, sort |-> "single",
                                    select |-> "single", namespace |-> "custom"])
    /\ selection = NoSelection
    /\ resolution = NoResolution
    /\ inflight = <<>>
    /\ worker = NoWorker

\* the update() the constructor starts
FirstUpdateAsync ==
    /\ pc = "constructed"
    /\ pc' = "idle"
    /\ Begin(This)
    /\ UNCHANGED <<selection, resolution, worker>>

\* TableState.onFilterChange
OnFilterChangeAsync ==
    /\ pc = "idle"
    /\ \E text \in FilterTexts :
          Begin([This EXCEPT !.config.filter = text, !.pendingConfigChange = TRUE])
    /\ UNCHANGED <<pc, selection, resolution, worker>>

\* TableState.onClick on the prev or next button
OnClickButtonAsync ==
    /\ pc = "idle"
    /\ \E button \in {"prev", "next"} :
          LET S == clickButton(This, button)
          IN IF S.pendingConfigChange \/ S.pendingHeaderChange
             THEN Begin(S)
             ELSE Become(S) /\ UNCHANGED <<emitted, call, inflight>>
    /\ UNCHANGED <<pc, selection, resolution, worker>>

\* Settle with the flags tested after they are cleared: nothing but the body
\* is handed over
SettleClearingFirst ==
    /\ \E i \in 1..Len(inflight) :
          \E outcome \in CustomFilter(inflight[i].filter, data.original, heap) :
             LET D == [Resumed(This, inflight[i], outcome)
                          EXCEPT !.pendingConfigChange = FALSE,
                                 !.pendingHeaderChange = FALSE]
             IN /\ Become(D)
                /\ emitted' = Emission(D)
                /\ call' = [invoked |-> TRUE, outcome |-> outcome,
                            filter |-> inflight[i].filter]
                /\ inflight' = RemoveAt(inflight, i)
    /\ UNCHANGED <<pc, selection, resolution, worker>>

\* the promise of one suspended call settles: its updateData and the rest of
\* its update() run
Settle ==
    /\ \E i \in 1..Len(inflight) :
          \E outcome \in CustomFilter(inflight[i].filter, data.original, heap) :
             LET D == Resumed(This, inflight[i], outcome)
             IN /\ Become([D EXCEPT !.pendingConfigChange = FALSE,
                                    !.pendingHeaderChange = FALSE])
                /\ emitted' = Emission(D)
                /\ call' = [invoked |-> TRUE, outcome |-> outcome,
                            filter |-> inflight[i].filter]
                /\ inflight' = RemoveAt(inflight, i)
    /\ UNCHANGED <<pc, selection, resolution, worker>>

AsyncNext ==
    \/ FirstUpdateAsync
    \/ OnFilterChangeAsync
    \/ OnClickButtonAsync
    \/ Settle

AsyncSpec == AsyncInit /\ [][AsyncNext]_vars

(***************************************************************************)
(* Construction with a configured initial page: a table of one to MaxRows  *)
(* rows constructed on any page of its dataset, then filtered and paged.   *)
(***************************************************************************)
PagedInit ==
    /\ \E n \in 1..MaxRows, pageSize \in {1, MaxPageSize}, c \in Configurations :
          \E page \in 0..((n + pageSize - 1) \div pageSize - 1) :
             ConstructedAt(n, pageSize, c,
                           [original |-> <<ColumnA, ColumnB>>,
                            virtual |-> <<ColumnA, ColumnB>>], page)
    /\ selection = NoSelection
    /\ resolution = NoResolution
    /\ inflight = <<>>
    /\ worker = NoWorker

PagedNext ==
    \/ FirstUpdate
    \/ OnFilterChange
    \/ OnClickButton

PagedSpec == PagedInit /\ [][PagedNext]_vars

(***************************************************************************)
(* The overlapping cycles under the assumption that every call of the      *)
(* filter routine settles, with clicks on the sort headers among the       *)
(* events: the update() the constructor starts runs, and a suspended       *)
(* update() resumes.                                                       *)
(***************************************************************************)
\* TableState.onClick on a column header
OnClickColumnAsync ==
    /\ pc = "idle"
    /\ \E index \in 0..(Len(config.columns.virtual) - 1) :
          Begin(clickColumn(This, index))
    /\ UNCHANGED <<pc, selection, resolution, worker>>

\* the texts entered while calls are pending: one the routine is called
\* for, and the empty text, which ends a cycle without a call
LiveTexts == {EmptyText, Text(FALSE, <<"a", ">", "7">>)}

\* TableState.onFilterChange
OnFilterChangeLive ==
    /\ pc = "idle"
    /\ \E text \in LiveTexts :
          Begin([This EXCEPT !.config.filter = text, !.pendingConfigChange = TRUE])
    /\ UNCHANGED <<pc, selection, resolution, worker>>

\* one row a page, so that a page click changes the page and a shorter
\* result resets it
LiveInit ==
    /\ Constructed(MaxRows, 1, [withIndex |-> TRUE, sort |-> "single",
                          select |-> "single", namespace |-> "custom"])
    /\ selection = NoSelection
    /\ resolution = NoResolution
    /\ inflight = <<>>
    /\ worker = NoWorker

\* a step in which a call leaves the calls in flight. A step of LiveNext
\* shortens inflight exactly when it is a Settle step, and one is possible
\* exactly when a call is in flight; the first disjunct, which implies the
\* second, gives such a step explicitly.
CallSettles ==
    /\ inflight # <<>>
    /\ \/ /\ inflight' = Tail(inflight)
          /\ UNCHANGED <<tableVars, selection, resolution, worker>>
       \/ Len(inflight') < Len(inflight)

LiveNext ==
    \/ FirstUpdateAsync
    \/ OnFilterChangeLive
    \/ OnClickButtonAsync
    \/ OnClickColumnAsync
    \/ Settle

LiveSpec ==
    /\ LiveInit
    /\ [][LiveNext]_vars
    /\ WF_vars(FirstUpdateAsync)
    /\ WF_vars(CallSettles)

(***************************************************************************)
(* The built-in filter routine over its grammar: texts of one to four      *)
(* tokens, with every operator the routine knows and one it does not,      *)
(* entered into the filter input of a table of zero to MaxRows rows.       *)
(***************************************************************************)
\* the texts of three tokens: a key (plain, quoted, or of no field), an
\* operator and a value
ThreeTokens ==
    { Text(FALSE, <<key, operation, value>>) :
         key \in {"a", "\"a\"", "'b'", "zz"},
         operation \in KnownOperations \cup {"~"},
         value \in {"0", "1"} }

\* and texts of one, two and four tokens
GrammarTexts ==
    ThreeTokens \cup { EmptyText,
                       Text(FALSE, <<"a">>),
                       Text(FALSE, <<"a", ">">>),
                       Text(TRUE, <<"a", ">", "0", "1">>) }

GrammarInit ==
    /\ \E n \in 0..MaxRows, withIndex \in BOOLEAN :
          Constructed(n, 1, [withIndex |-> withIndex, sort |-> "single",
                             select |-> "single", namespace |-> "default"])
    /\ selection = NoSelection
    /\ resolution = NoResolution
    /\ inflight = <<>>
    /\ worker = NoWorker

\* TableState.onFilterChange with a text of the grammar
OnFilterChangeGrammar ==
    /\ pc = "idle"
    /\ \E text \in GrammarTexts :
          Cycle([This EXCEPT !.config.filter = text, !.pendingConfigChange = TRUE])
    /\ UNCHANGED <<pc, pureVars>>

GrammarNext == FirstUpdate \/ OnFilterChangeGrammar

GrammarSpec == GrammarInit /\ [][GrammarNext]_vars

(***************************************************************************)
(* updateSelections on its own: an array of row identities or column       *)
(* indices toggled again and again under one selection mode.               *)
(***************************************************************************)
\* longest array the selection starts from
MaxSelected == 2

\* the identities / column indices a call can carry: one and two digits
Members == {0, 1, 2, 9, 10}

\* the values config.row_selectable / config.column_selectable can hold
Modes == {"single", "multi", "", "none", ModeUndefined, ModeNull, ModeFalse}

\* the arrays without duplicates of at most n members, in any order
Arrays(n) ==
    UNION { {a \in [1..k -> Members] : \A i, j \in 1..k : i # j => a[i] # a[j]} : k \in 0..n }

SelectionInit ==
    /\ Constructed(0, 1, [withIndex |-> TRUE, sort |-> "single", select |-> "single",
                          namespace |-> "default"])
    /\ \E selected \in Arrays(MaxSelected), mode \in Modes :
          selection = [selected |-> selected, mode |-> mode, before |-> <<>>, index |-> Undef]
    /\ resolution = NoResolution
    /\ inflight = <<>>
    /\ worker = NoWorker

\* one call updateSelections(selected, index, {mode})
UpdateSelections ==
    /\ \E index \in Members :
          selection' = [selected |-> updateSelections(selection.selected, index, selection.mode),
                        mode |-> selection.mode,
                        before |-> selection.selected,
                        index |-> index]
    /\ UNCHANGED <<tableVars, resolution, inflight, worker>>

SelectionNext == UpdateSelections

SelectionSpec == SelectionInit /\ [][SelectionNext]_vars

(***************************************************************************)
(* updateColumns on its own: column lists resolved one after the other     *)
(* from the first row a filter pass left in data.filtered, with header     *)
(* checkboxes clicked in between.                                          *)
(***************************************************************************)
MaxColumns == 2

\* the keys a first row can have
RowKeys == {"a", "b", "n", row_index_key}

\* the key lists of at most n keys, in any order
KeyLists(n) ==
    UNION { {a \in [1..k -> RowKeys] : \A i, j \in 1..k : i # j => a[i] # a[j]} : k \in 0..n }

\* the TableState updateColumns is called on: the column list and the
\* selection of `resolution`, no row or one row with the given keys in
\* data.filtered, the header flag cleared
Resolving(keys, rows) ==
    [This EXCEPT !.config.columns.virtual = resolution.virtual,
                 !.config.selected_columns = resolution.selected,
                 !.data.filtered = [i \in 1..rows |-> 1],
                 !.heap = [id \in DOMAIN heap |->
                             IF id = 1 THEN [i \in 1..Len(keys) |-> [k |-> keys[i], v |-> 0]]
                             ELSE heap[id]],
                 !.pendingHeaderChange = FALSE]

ResolutionInit ==
    /\ Constructed(0, 1, [withIndex |-> FALSE, sort |-> "single", select |-> "multi",
                          namespace |-> "default"])
    /\ selection = NoSelection
    /\ resolution = [virtual |-> config.columns.virtual, selected |-> <<>>,
                     before |-> <<>>, header |-> FALSE, step |-> "constructed"]
    /\ inflight = <<>>
    /\ worker = NoWorker

\* one call updateColumns(original)
ResolveColumns ==
    /\ \E original \in BOOLEAN, keys \in KeyLists(MaxColumns), rows \in 0..1 :
          LET R == updateColumns(Resolving(keys, rows), original)
          IN resolution' = [virtual |-> R.config.columns.virtual,
                            selected |-> R.config.selected_columns,
                            before |-> [virtual |-> resolution.virtual,
                                        selected |-> resolution.selected],
                            header |-> R.pendingHeaderChange,
                            step |-> "resolved"]
    /\ UNCHANGED <<tableVars, selection, inflight, worker>>

\* a click on the checkbox of a selectable header, as clickCheckbox handles it
SelectColumn ==
    /\ \E index \in 0..(Len(resolution.virtual) - 1) :
          /\ resolution.virtual[index + 1].selectable
          /\ resolution' = [resolution EXCEPT
                               !.selected = updateSelections(@, index, config.column_selectable),
                               !.before = <<>>,
                               !.header = FALSE,
                               !.step = "clicked"]
    /\ UNCHANGED <<tableVars, selection, inflight, worker>>

ResolutionNext == ResolveColumns \/ SelectColumn

ResolutionSpec == ResolutionInit /\ [][ResolutionNext]_vars

(***************************************************************************)
(* One BackgroundWorker and the BackgroundWorkerRuntime of its Worker:     *)
(* run() is called up to MaxCalls times, the runtime answers the requests  *)
(* it has received in any order (its run() is awaited), and the responses  *)
(* arrive as message events on the Worker object.                          *)
(***************************************************************************)
\* Number.MAX_SAFE_INTEGER, 2^53 - 1, scaled to the calls made
MAX_SAFE_INTEGER == 3

MaxCalls == 3

\* null and undefined as response fields
Null == "null"
Undefined == "undefined"

\* BackgroundWorker.generateRequestID: the ID returned and this.lastID after
generateRequestID(lastID) ==
    LET last == IF lastID = MAX_SAFE_INTEGER THEN 1 ELSE lastID
    IN [id |-> last, lastID |-> last + 1]

\* what a method can throw or reject with: an Error, a primitive (a string),
\* or nothing (throw undefined, Promise.reject())
Thrown == { [type |-> "Error", message |-> "m"],
            [type |-> "string", message |-> Undefined],
            [type |-> "undefined", message |-> Undefined] }

\* what this[method] can be for a method name: no property, a falsy
\* property (logErrors, pyodide before init), a truthy property that is not
\* a function (pyodideURL), or a function that returns (a value or nothing)
\* or throws
RuntimeMembers ==
    { [kind |-> "undefined"], [kind |-> "falsy"], [kind |-> "value"] }
       \cup { [kind |-> "returns", value |-> v] : v \in {"v", Undefined} }
       \cup { [kind |-> "throws", error |-> t] : t \in Thrown }

\* the catch block of BackgroundWorkerRuntime.run for the thrown value
\* `error`: onError is called, then error.message is read, which throws a
\* TypeError of its own when `error` is undefined or null
Caught(id, error) ==
    IF error.type = "undefined"
    THEN [rejected |-> TRUE, reported |-> TRUE]
    ELSE [rejected |-> FALSE, reported |-> TRUE,
          response |-> [id |-> id, result |-> Null, error |-> error.message]]

\* BackgroundWorkerRuntime.run(request) when this[request.method] is `member`
RuntimeRun(request, member) ==
    CASE member.kind \in {"undefined", "falsy"} ->
            [rejected |-> FALSE, reported |-> FALSE,
             response |-> [id |-> request.id, result |-> Null, error |-> Null]]
      [] member.kind = "value" ->
            \* this[method](args) throws: TypeError, this[method] is not a function
            Caught(request.id, [type |-> "Error", message |-> "not a function"])
      [] member.kind = "returns" ->
            [rejected |-> FALSE, reported |-> FALSE,
             response |-> [id |-> request.id, result |-> member.value, error |-> Null]]
      [] member.kind = "throws" ->
            Caught(request.id, member.error)

\* a listener that does not compare the id of the message with its own
listenerOfAnyMessage(c, event) ==
    IF ~c.listening
    THEN c
    ELSE [c EXCEPT !.listening = FALSE,
                   !.resolutions = Append(@, [result |-> event.result,
                                              error |-> event.error,
                                              for |-> event.for])]

\* the listener of call `c` run on the message event `event`, which carries
\* the response to the request of call event.for
listener(c, event) ==
    IF ~c.listening \/ event.id # c.id
    THEN c
    ELSE [c EXCEPT !.listening = FALSE,
                   !.resolutions = Append(@, [result |-> event.result,
                                              error |-> event.error,
                                              for |-> event.for])]

\* the calls whose listener is registered
Listening(w) == {k \in 1..Len(w.calls) : w.calls[k].listening}

WorkerInit ==
    /\ Constructed(0, 1, [withIndex |-> TRUE, sort |-> "single", select |-> "single",
                          namespace |-> "default"])
    /\ selection = NoSelection
    /\ resolution = NoResolution
    /\ inflight = <<>>
    /\ worker = NoWorker

\* BackgroundWorker.run(method, args)
WorkerRun ==
    /\ Len(worker.calls) < MaxCalls
    /\ LET generated == generateRequestID(worker.lastID)
           k == Len(worker.calls) + 1
       IN worker' = [worker EXCEPT
             !.lastID = generated.lastID,
             !.calls = Append(@, [id |-> generated.id, listening |-> TRUE,
                                  resolutions |-> <<>>,
                                  pending |-> Listening(worker)]),
             !.requests = @ \cup {[id |-> generated.id, for |-> k]}]
    /\ UNCHANGED <<tableVars, selection, resolution, inflight>>

\* self.onmessage in the Worker: runtime.run(event.data) completes for one
\* of the requests received, and its response is posted unless it rejected
RuntimeAnswers ==
    /\ \E request \in worker.requests, member \in RuntimeMembers :
          LET outcome == RuntimeRun(request, member)
          IN worker' = [worker EXCEPT
                !.requests = @ \ {request},
                !.responses = IF outcome.rejected
                              THEN @
                              ELSE @ \cup {[id |-> outcome.response.id,
                                            result |-> outcome.response.result,
                                            error |-> outcome.response.error,
                                            for |-> request.for]},
                !.run = [done |-> TRUE, request |-> request, member |-> member,
                         outcome |-> outcome]]
    /\ UNCHANGED <<tableVars, selection, resolution, inflight>>

\* a message event of the Worker object: every registered listener runs
MessageArrives ==
    /\ \E event \in worker.responses :
          worker' = [worker EXCEPT
             !.responses = @ \ {event},
             !.calls = [k \in 1..Len(@) |-> listener(@[k], event)]]
    /\ UNCHANGED <<tableVars, selection, resolution, inflight>>

WorkerNext ==
    \/ WorkerRun
    \/ RuntimeAnswers
    \/ MessageArrives

WorkerSpec == WorkerInit /\ [][WorkerNext]_vars

(***************************************************************************)
(* Properties.                                                             *)
(***************************************************************************)
\* a cycle has completed and no event is being handled
Idle == pc = "idle"

\* the slice getRows renders in the current state
BodySlice == getRows(data.virtual, config.page, config.page_size)

\* C1: a cycle whose filter routine throws or rejects still completes: the
\* filtered tier is the original rows in order, the 'invalid' marker is set,
\* the body slice is emitted, and the pass leaves selected_rows as it was
\* (a row checkbox click is the one event that edits the set itself).
C1_FailedPassFallsBack ==
    [][(call'.invoked /\ ~call'.outcome.ok)
        => /\ pc' = "idle"
           /\ data'.filtered = data'.original
           /\ invalid'
           /\ emitted'.body = getRows(data'.virtual, config'.page, config'.page_size)
           /\ (~OnClickRowCheck => config'.selected_rows = config.selected_rows)]_vars

C1_Witness ==
    /\ Idle /\ call.invoked /\ ~call.outcome.ok
    /\ invalid
    /\ config.selected_rows # <<>>
    /\ Len(data.filtered) >= 2
    /\ data.filtered = data.original

\* C2: after a failed pass the controller stays usable: a text the routine
\* accepts makes data.filtered the routine's result and clears the marker, and
\* an empty (trimmed) filter text leaves the marker cleared.
C2_UsableAfterFailure ==
    Idle => /\ (call.invoked /\ call.outcome.ok)
                => (data.filtered = call.outcome.rows /\ ~invalid)
            /\ CycleFilter(This) = EmptyText => ~invalid

\* C3: with an empty or white-space-only filter text the filtered tier is the
\* dataset row for row and the row at position i carries identity i.
C3_EmptyFilterIdentityIsPosition ==
    (Idle /\ CycleFilter(This) = EmptyText)
        => /\ data.filtered = data.original
           /\ \A i \in 1..Len(data.filtered) :
                 Get(heap[data.filtered[i]], row_index_key) = i - 1

\* C4: a cycle run with the filter text and sort specification of the previous
\* completed cycle does not invoke the filter routine and leaves the filtered
\* and virtual tiers as they were.
C4_UnchangedKeyIsMemoized ==
    [][(pc = "idle" /\ OrEmpty(config'.filter) = OrEmpty(config.filter)
                    /\ config'.sort_by = config.sort_by)
        => /\ ~call'.invoked
           /\ data'.filtered = data.filtered
           /\ data'.virtual = data.virtual]_vars

\* how often x occurs in a sequence
Occurrences(s, x) == Cardinality({i \in 1..Len(s) : s[i] = x})

IsPermutation(s, t) ==
    /\ Len(s) = Len(t)
    /\ \A i \in 1..Len(t) : Occurrences(s, t[i]) = Occurrences(t, t[i])

\* C5: when a cycle has completed, data.virtual is a permutation of
\* data.filtered: the same rows with the same multiplicities.
C5_VirtualPermutesFiltered ==
    Idle => IsPermutation(data.virtual, data.filtered)

C5_Witness ==
    /\ Idle
    /\ Len(data.filtered) >= 2
    /\ data.virtual # data.filtered
    /\ Len(config.sort_by) >= 1

\* the first sorter of S on which two rows differ, 0 when none
FirstDeciding(x, y, S) ==
    IF \E i \in 1..Len(S) : Get(x, S[i].key) # Get(y, S[i].key)
    THEN CHOOSE i \in 1..Len(S) :
            /\ Get(x, S[i].key) # Get(y, S[i].key)
            /\ \A j \in 1..(i - 1) : Get(x, S[j].key) = Get(y, S[j].key)
    ELSE 0

\* x stands before y in the stable order of S over the sequence `base`
Before(x, y, S, hp, base) ==
    LET d == FirstDeciding(hp[x], hp[y], S)
    IN IF d = 0 THEN IndexOf(base, x) < IndexOf(base, y)
       ELSE IF S[d].order = "asc"
            THEN Get(hp[x], S[d].key) < Get(hp[y], S[d].key)
            ELSE Get(hp[x], S[d].key) > Get(hp[y], S[d].key)

\* C6: after a cycle data.virtual is the stable sort of data.filtered under
\* sort_by: the first key on which two rows differ decides their order by its
\* asc / desc flag, rows equal on every key keep their order of data.filtered,
\* and with an empty specification data.virtual equals data.filtered.
C6_VirtualIsStableSort ==
    Idle => /\ IsPermutation(data.virtual, data.filtered)
            /\ \A i, j \in 1..Len(data.virtual) :
                  i < j => Before(data.virtual[i], data.virtual[j],
                                  config.sort_by, heap, data.filtered)
            /\ config.sort_by = <<>> => data.virtual = data.filtered

C6_Witness ==
    /\ Idle
    /\ Len(config.sort_by) = 2
    /\ config.sort_by[1].order = "desc"
    /\ Len(data.virtual) >= 3
    /\ \E i, j \in 1..Len(data.virtual) :
          /\ i < j
          /\ FirstDeciding(heap[data.virtual[i]], heap[data.virtual[j]], config.sort_by) = 2
    /\ data.virtual # data.filtered

\* C7: re-applying an unchanged sort specification is idempotent: a further
\* cycle with the same sort_by and the same filtered tier leaves the order of
\* data.virtual as it was, and sorting data.virtual again does not move a row.
C7_ResortIsIdempotent ==
    [][(pc = "idle" /\ config'.sort_by = config.sort_by
                    /\ data'.filtered = data.filtered)
        => /\ data'.virtual = data.virtual
           /\ sortData(data'.virtual, heap', config'.sort_by) = data'.virtual]_vars

C7_Witness ==
    /\ Idle
    /\ Len(config.sort_by) >= 1
    /\ data.virtual # data.filtered
    /\ config.selected_rows # <<>>
    /\ \E i, j \in 1..Len(data.virtual) :
          i # j /\ Compare(heap[data.virtual[i]], heap[data.virtual[j]], config.sort_by) = 0

\* the slices of pages 0..lastPage of a sequence, one after the other
RECURSIVE PagesUpTo(_, _, _)
PagesUpTo(virtual, lastPage, pageSize) ==
    IF lastPage < 0 THEN <<>>
    ELSE PagesUpTo(virtual, lastPage - 1, pageSize) \o getRows(virtual, lastPage, pageSize)

\* C8: for every page size p > 0 the row slices of pages 0..getLastPage(),
\* in page order, make up data.virtual: every row in exactly one page.
C8_PagesPartitionVirtual ==
    \A p \in 1..(MaxPageSize + 1) :
        PagesUpTo(data.virtual, getLastPage(Len(data.virtual), p), p) = data.virtual

C8_Witness ==
    /\ Idle
    /\ Len(data.virtual) = 3
    /\ config.page_size = 2
    /\ config.page = 1
    /\ Len(BodySlice) = 1

\* ceil(n / p) for n >= 0 and p > 0
CeilDiv(n, p) == (n + p - 1) \div p

Max(x, y) == IF x >= y THEN x ELSE y

\* C9: getLastPage returns max(0, ceil(n/p) - 1) for n rows and page size p,
\* 0 for an empty virtual tier and 2 for 25 rows with page size 10.
C9_LastPageFormula ==
    /\ getLastPage(25, 10) = 2
    /\ Idle => \A p \in 1..(MaxPageSize + 1) :
                  getLastPage(Len(data.virtual), p) = Max(0, CeilDiv(Len(data.virtual), p) - 1)

\* C10: starting from page 0, with every cycle completing before the next
\* event, the page stays within [0, max(0, ceil(len(virtual)/page_size) - 1)].
C10_PageStaysClamped ==
    Idle => /\ 0 <= config.page
            /\ config.page <= Max(0, CeilDiv(Len(data.virtual), config.page_size) - 1)

C10_Witness ==
    /\ Idle
    /\ config.page >= 1
    /\ config.page = CeilDiv(Len(data.virtual), config.page_size) - 1
    /\ Len(data.filtered) < Len(data.original)

\* a page-button click in the current state that leaves the page where it is
\* sets no dirty flag, so that onClick does not start update()
KeptPageStartsNoCycle ==
    \A button \in {"prev", "next"} :
        LET S == clickButton(This, button)
        IN S.config.page = config.page
              => /\ ~S.pendingConfigChange /\ ~S.pendingHeaderChange
                 /\ S = This

\* C11: a page-button click leaves the three tiers (rows and order), the sort
\* specification and both selection sets as they were, and when the page does
\* not change it sets no dirty flag, starts no cycle and emits nothing.
C11_PageClickFrame ==
    [][/\ pc = "idle" => KeptPageStartsNoCycle
       /\ OnClickButton
            => /\ data' = data
               /\ config'.sort_by = config.sort_by
               /\ config'.selected_rows = config.selected_rows
               /\ config'.selected_columns = config.selected_columns
               /\ config'.page = config.page => (emitted' = emitted /\ call' = call)]_vars

\* the sort specification a header click on column c is to produce
ToggledSortBy(sortBy, c, sortMode) ==
    LET at == {i \in 1..Len(sortBy) : sortBy[i].key = c}
    IN IF at = {}
       THEN IF sortMode = "single" THEN <<[key |-> c, order |-> "asc"]>>
            ELSE Append(sortBy, [key |-> c, order |-> "asc"])
       ELSE LET i == CHOOSE j \in at : TRUE
            IN IF sortBy[i].order = "asc"
               THEN [sortBy EXCEPT ![i].order = "desc"]
               ELSE RemoveAt(sortBy, i)

\* C12: a header click on column c turns c's order asc into desc, removes
\* exactly c's entry when its order is desc, and when c is absent replaces the
\* specification by [{c, asc}] (single) or appends {c, asc} (multi); both
\* dirty flags are set.
C12_HeaderClickTogglesSorter ==
    Idle => \A index \in 0..(Len(config.columns.virtual) - 1) :
               LET S == clickColumn(This, index)
                   c == config.columns.virtual[index + 1].name
               IN /\ S.config.sort_by = ToggledSortBy(config.sort_by, c, config.sort_mode)
                  /\ S.pendingConfigChange
                  /\ S.pendingHeaderChange

\* updateSelections has been called on the array toggled on its own
Called == selection.index # Undef

\* C13: a call updateSelections(selected, i, mode) removes i and nothing else
\* when i is a member, whatever the mode; otherwise "multi" adds i to the
\* previous members and "single" leaves exactly {i}.
C13_ToggleByMode ==
    Called =>
        LET before == Range(selection.before)
            after  == Range(selection.selected)
            i      == selection.index
        IN /\ Len(selection.selected) = Cardinality(after)
           /\ i \in before => after = before \ {i}
           /\ (i \notin before /\ selection.mode = "multi") => after = before \cup {i}
           /\ (i \notin before /\ selection.mode = "single") => after = {i}

C13_Witness ==
    /\ Called
    /\ selection.mode = "single"
    /\ Len(selection.before) = 2
    /\ selection.index \notin Range(selection.before)
    /\ selection.selected = <<selection.index>>

\* the rows of data.virtual that updateHighlights marks as selected in S
SelectedRows(S) ==
    {id \in Range(S.data.virtual) :
        Get(S.heap[id], row_index_key) \in Range(S.config.selected_rows)}

\* C14: under mode "single" a selection set holds at most one member after any
\* sequence of events, and with row X selected a click on the checkbox of
\* another row Y leaves Y, and only Y, selected.
C14_SingleHoldsOne ==
    /\ config.row_selectable = "single" => Len(config.selected_rows) <= 1
    /\ config.column_selectable = "single" => Len(config.selected_columns) <= 1
    /\ (Idle /\ config.row_selectable = "single")
          => \A x, y \in 0..(Len(BodySlice) - 1) :
                (x # y /\ config.selected_rows
                            = <<Get(heap[getPaginatedItem(This, x)], row_index_key)>>)
                   => SelectedRows(clickCheckbox(This, "row-check", y))
                         = {getPaginatedItem(This, y)}

\* updateSelections applied twice with the same candidate and mode
ToggledTwice(selected, i, mode) ==
    updateSelections(updateSelections(selected, i, mode), i, mode)

\* C15: for every selection S, candidate i and mode "single" or "multi",
\* toggling i twice yields a set equal to S.
C15_ToggleIsItsInverse ==
    selection.mode \in {"single", "multi"}
        => \A i \in Members :
              Range(ToggledTwice(selection.selected, i, selection.mode))
                 = Range(selection.selected)

\* C15, amended: toggling i twice yields a set equal to S under mode "multi"
\* for every S and i, and under mode "single" exactly when S has no member
\* other than i.
C15_ToggleIsItsInverseUnlessReplaced ==
    \A i \in Members :
        LET twice == Range(ToggledTwice(selection.selected, i, selection.mode))
            S == Range(selection.selected)
        IN /\ selection.mode = "multi" => twice = S
           /\ selection.mode = "single" => (twice = S <=> S \subseteq {i})

C15_Witness ==
    /\ Called
    /\ selection.mode = "multi"
    /\ Len(selection.selected) >= 2
    /\ selection.before = ToggledTwice(selection.before, selection.index, selection.mode)
    /\ \E i \in Members : i \notin Range(selection.selected)

\* C16: after every updateSelections call the array is in ascending numeric
\* order of its members, values of 10 and above included.
C16_SelectionAscending ==
    Called => \A i, j \in 1..Len(selection.selected) :
                 i < j => selection.selected[i] <= selection.selected[j]

\* under the modes of M a call with a candidate that is not a member leaves
\* the array empty, and an empty array stays empty under any further call
NeverInserts(M) ==
    selection.mode \in M
        => /\ (Called /\ selection.index \notin Range(selection.before))
                 => selection.selected = <<>>
           /\ selection.selected = <<>>
                 => \A i \in Members : updateSelections(<<>>, i, selection.mode) = <<>>

\* C17: under every mode other than "single" and "multi" (undefined, null,
\* false and "" included) a click on a candidate that is not in the set never
\* inserts it: the set is emptied and stays empty under all later clicks.
C17_NoModeNeverInserts ==
    NeverInserts(Modes \ {"single", "multi"})

\* C17, amended: the same under every mode other than "single", "multi" and
\* undefined (null, false, "" and unrecognized strings); an undefined or
\* absent mode is the default "multi" and inserts the candidate.
C17_DisabledModeNeverInserts ==
    /\ NeverInserts(Modes \ {"single", "multi", ModeUndefined})
    /\ (Called /\ selection.mode = ModeUndefined
               /\ selection.index \notin Range(selection.before))
          => Range(selection.selected) = Range(selection.before) \cup {selection.index}

C17_Witness ==
    /\ Called
    /\ selection.mode = ModeNull
    /\ Len(selection.before) = 2
    /\ selection.index \notin Range(selection.before)
    /\ selection.selected = <<>>

\* a row as the filter routine returned it, before any identity is assigned:
\* an object of its own, or one of the objects of hp
AsReturned(outcome, hp, id) ==
    IF id \in DOMAIN outcome.fresh THEN outcome.fresh[id] ELSE hp[id]

\* the routine returned rows that do not preserve identity: no row at all, or
\* a first row without the row identity key
NotPreserved(outcome, hp) ==
    /\ outcome.ok
    /\ \/ outcome.rows = <<>>
       \/ Get(AsReturned(outcome, hp, outcome.rows[1]), row_index_key) = Undef

\* C18: a filter pass whose routine returned rows that do not preserve
\* identity (first row without the identity key, or no row) leaves
\* selected_rows empty when the cycle completes, whatever it held before, and
\* the pass itself sets pendingConfigChange (also when started with it clear).
C18_LostIdentityClearsRows ==
    [][(call'.invoked /\ NotPreserved(call'.outcome, heap))
        => /\ config'.selected_rows = <<>>
           /\ emitted'.config
           /\ FilterStage([This EXCEPT !.config.filter = config'.filter,
                                       !.pendingConfigChange = FALSE],
                          call'.outcome).pendingConfigChange]_vars

C18_Witness ==
    /\ Idle
    /\ call.invoked /\ call.outcome.ok
    /\ call.outcome.rows = <<FreshId>>
    /\ Get(call.outcome.fresh[FreshId], row_index_key) = Undef
    /\ Len(data.original) >= 2
    /\ config.selected_rows = <<>>
    /\ emitted.config

\* C19: after a pass whose routine returned rows for a non-empty filter text,
\* if the first row of data.filtered came with the row identity key no row's
\* identity is changed, and otherwise the row at each position i of
\* data.filtered carries identity i.
C19_IdentityKeptOrPosition ==
    [][(call'.invoked /\ call'.outcome.ok /\ call'.outcome.rows # <<>>)
        => IF NotPreserved(call'.outcome, heap)
           THEN \A i \in 1..Len(data'.filtered) :
                   Get(heap'[data'.filtered[i]], row_index_key) = i - 1
           ELSE \A id \in Range(data'.original) \cup Range(data'.filtered) :
                   Get(heap'[id], row_index_key)
                      = Get(AsReturned(call'.outcome, heap, id), row_index_key)]_vars

C19_Witness ==
    /\ Idle
    /\ call.invoked /\ call.outcome.ok
    /\ data.original = <<1, 2, 3>>
    /\ data.filtered = <<1, 3>>
    /\ Get(heap[1], row_index_key) = 0
    /\ Get(heap[3], row_index_key) = 1
    /\ Get(heap[2], row_index_key) = Undef

\* the column list `columns` shows exactly the names of `names`, in order, each
\* with the configured descriptor of that name when there is one and otherwise
\* with a descriptor of its own that is visible and selectable
ShowsColumns(columns, names, configured) ==
    /\ Len(columns) = Len(names)
    /\ \A i \in 1..Len(names) :
          /\ columns[i].name = names[i]
          /\ IF \E j \in 1..Len(configured) : configured[j].name = names[i]
             THEN \E j \in 1..Len(configured) : columns[i] = configured[j]
             ELSE columns[i].id = names[i] /\ columns[i].visible /\ columns[i].selectable

\* the keys of the first row the routine returned, the identity key left out
FirstRowColumns(outcome, hp) ==
    Without(Keys(AsReturned(outcome, hp, outcome.rows[1])), row_index_key)

\* C20: after a pass with a non-empty filter text that produced at least one
\* row, the virtual column list is exactly the keys of the first row of
\* data.filtered in key order without the row identity key, each with the
\* configured descriptor of its name or else a visible, selectable one.
C20_ColumnsFromFirstRow ==
    [][(call'.invoked /\ call'.outcome.ok /\ call'.outcome.rows # <<>>)
        => ShowsColumns(config'.columns.virtual,
                        FirstRowColumns(call'.outcome, heap),
                        config.columns.original)]_vars

\* C20, amended: the same when the first row has at least one key; when the
\* first row has no key at all the virtual column list is the configured
\* original columns.
C20_ColumnsFromFirstRowOrConfigured ==
    [][(call'.invoked /\ call'.outcome.ok /\ call'.outcome.rows # <<>>)
        => IF Keys(AsReturned(call'.outcome, heap, call'.outcome.rows[1])) # <<>>
           THEN ShowsColumns(config'.columns.virtual,
                             FirstRowColumns(call'.outcome, heap),
                             config.columns.original)
           ELSE config'.columns.virtual = config.columns.original]_vars

C20_Witness ==
    /\ Idle
    /\ call.invoked /\ call.outcome.ok
    /\ call.outcome.rows = <<FreshId>>
    /\ Keys(call.outcome.fresh[FreshId]) = <<"n">>
    /\ Names(config.columns.virtual) = <<"n">>
    /\ config.columns.virtual[1].visible
    /\ Keys(heap[FreshId]) = <<"n", row_index_key>>

\* the filter pass of the step, started with the header flag clear: This with
\* the filter text the cycle ran with
PassFromCleanHeader ==
    FilterStage([This EXCEPT !.config.filter = config'.filter,
                             !.pendingHeaderChange = FALSE],
                call'.outcome)

C22_SchemalessInfersColumns ==
    /\ pc # "threw"
    /\ (Idle /\ data.filtered # <<>>)
          => Names(config.columns.virtual)
                = Without(Keys(heap[data.filtered[1]]), row_index_key)

\* the column name a selected index designated in a column list
Referenced(columns, columnIndex) ==
    IF columnIndex + 1 \in 1..Len(columns)
    THEN columns[columnIndex + 1].name ELSE "undefined"

\* the selected indices whose name in the list `columns` is in the list `final`
Surviving(selected, columns, final) ==
    LET Survives(columnIndex) == Includes(Names(final), Referenced(columns, columnIndex))
    IN SelectSeq(selected, Survives)

\* C23: a schema resolution removes a selected column index exactly when the
\* name it designated in the previous virtual column list is not in the new
\* one, keeps every other index, and sets pendingHeaderChange whenever it
\* removes one.
C23_PrunedExactlyWhenNameGone ==
    resolution.step = "resolved"
       => /\ resolution.selected
                = Surviving(resolution.before.selected, resolution.before.virtual,
                            resolution.virtual)
          /\ resolution.selected # resolution.before.selected => resolution.header

\* a resolution from two selected columns that removed one and kept the other
C23_Witness ==
    /\ resolution.step = "resolved"
    /\ Len(resolution.before.selected) = 2
    /\ Len(resolution.selected) = 1
    /\ resolution.header

\* C24: a dirty flag is cleared only after its artifact has been handed to
\* the render layer successfully: when the hand-off of the configuration
\* snapshot (of the header layout) fails, pendingConfigChange
\* (pendingHeaderChange) is still set.
C24_FailedHandoffKeepsFlag ==
    /\ pc = "config" => pendingConfigChange
    /\ pc = "header" => pendingHeaderChange

\* the states an event handler can have left when it called update() in a
\* step: the constructor's state, the filter input's text assigned, or a
\* click handled (a header click is the one handler that changes sort_by,
\* and no click changes the filter text)
Started ==
    IF pc = "constructed" THEN {This}
    ELSE { S \in { [This EXCEPT !.config.filter = config'.filter,
                                !.pendingConfigChange = TRUE] }
                 \cup (IF config'.filter # config.filter THEN {}
                       ELSE IF config'.sort_by # config.sort_by
                       THEN { clickColumn(This, index) :
                                 index \in 0..(Len(config.columns.virtual) - 1) }
                       ELSE { clickButton(This, button) : button \in {"prev", "next"} }
                            \cup { clickCheckbox(This, "row-check", index) :
                                      index \in 0..(Len(emitted.body) - 1) }
                            \cup { clickCheckbox(This, "column-check", index) :
                                      index \in { i \in 0..(Len(config.columns.virtual) - 1) :
                                                    config.columns.virtual[i + 1].selectable } }) :
             S.pendingConfigChange \/ S.pendingHeaderChange }

\* the step is the update() started from S, whose updateData left D
IsCycleFrom(S, D) ==
    /\ call' = IF CallsRoutine(S) THEN [invoked |-> TRUE, outcome |-> call'.outcome]
               ELSE NoCall
    /\ This' = [D EXCEPT !.pendingConfigChange = FALSE, !.pendingHeaderChange = FALSE]

\* C25: a cycle hands over the configuration exactly when pendingConfigChange
\* is set after updateData, the header exactly when pendingHeaderChange is,
\* and the body slice always; it ends with both flags cleared, and the cycle
\* the constructor starts hands over configuration and header.
C25_EmitsWhatIsFlagged ==
    [][/\ \E S \in Started :
             \* what updateData leaves alone, or can only reset
             /\ S.config.sort_by = config'.sort_by
             /\ config'.page \in {S.config.page, 0}
             /\ config'.selected_rows \in {S.config.selected_rows, <<>>}
             /\ Range(config'.selected_columns) \subseteq Range(S.config.selected_columns)
             /\ call'.outcome \in (IF CallsRoutine(S) THEN Outcomes(S, CycleFilter(S))
                                   ELSE {Rejected})
             /\ \E D \in {updateData(S, call'.outcome)} :
                   /\ IsCycleFrom(S, D)
                   /\ emitted'.config <=> D.pendingConfigChange
                   /\ emitted'.header <=> D.pendingHeaderChange
       /\ emitted'.body = getRows(data'.virtual, config'.page, config'.page_size)
       /\ ~pendingConfigChange' /\ ~pendingHeaderChange'
       /\ pc = "constructed" => emitted'.config /\ emitted'.header]_vars

\* a cycle that handed over the body alone, and the configuration without
\* the header, is not expressible in one state: a cycle after construction
\* that handed over the configuration and not the header
C25_Witness ==
    /\ Idle
    /\ emitted.config /\ ~emitted.header
    /\ ~pendingConfigChange /\ ~pendingHeaderChange
    /\ emitted.body # <<>>
    /\ emitted.body = BodySlice

\* C26: at most one call of the filter routine is in flight, and while one is
\* in flight no event starts another filter pass or changes the
\* configuration: only the settling of the call does.
C26_OneCallInFlight ==
    [][/\ Len(inflight') <= 1
       /\ (inflight # <<>> /\ Len(inflight') >= Len(inflight)) => config' = config]_vars

\* no update() is suspended and no event is being handled
Quiet == pc = "idle" /\ inflight = <<>>

\* C27: the result of a filter call is applied whenever the call settles,
\* whatever the filter text is by then: once a call for a text has returned,
\* data.filtered holds its rows, data.virtual holds them too and
\* lastVirtualization records its text, until the next cycle.  A call for a
\* text t1 that settles after the text became t2 so leaves, with no cycle in
\* flight, the result and the record of t1 under the configured text t2.
C27_LastSettledCallWins ==
    [][(call'.invoked /\ call'.outcome.ok /\ Len(inflight') < Len(inflight))
          => /\ data'.filtered = call'.outcome.rows
             /\ Range(data'.virtual) = Range(call'.outcome.rows)
             /\ Len(data'.virtual) = Len(call'.outcome.rows)
             /\ LastFilter(This') = call'.filter]_vars

\* no cycle in flight, the configured text is t2, the rows and the record are
\* those of the call for another text t1, which settled after the call for t2
C27_Witness ==
    /\ Quiet
    /\ call.invoked /\ call.outcome.ok
    /\ call.outcome.rows # <<>>
    /\ data.filtered = call.outcome.rows
    /\ data.virtual = call.outcome.rows
    /\ LastFilter(This) = call.filter
    /\ CycleFilter(This) # EmptyText
    /\ CycleFilter(This) # call.filter

\* a text the default grammar does not accept: not three tokens, or an
\* operator outside > >= < <= = == != !==
ParseFailure(text) ==
    \/ Len(text.toks) # 3
    \/ text.toks[2] \notin {">", ">=", "<", "<=", "=", "==", "!=", "!=="}

\* C28: under the default grammar, for every dataset (the empty one too),
\* a pass for a text that is not three tokens or has an unknown operator is
\* rejected by the routine, leaves data.filtered equal to data.original and
\* sets the 'invalid' marker.
C28_ParseFailureFallsBack ==
    [][(call'.invoked /\ ParseFailure(Trim(config'.filter)))
          => /\ ~call'.outcome.ok
             /\ data'.filtered = data'.original
             /\ invalid']_vars

\* the relation `field operator value` between numbers, as the grammar reads
Relation(field, operation, value) ==
    CASE operation = ">"  -> IsNum(field) /\ field > value
      [] operation = ">=" -> IsNum(field) /\ field >= value
      [] operation = "<"  -> IsNum(field) /\ field < value
      [] operation = "<=" -> IsNum(field) /\ field <= value
      [] operation \in {"=", "=="} -> field = value
      [] operation \in {"!=", "!=="} -> field # value

\* the rows, in order, whose field `key` stands in the relation to the value
Related(rows, hp, key, operation, value) ==
    LET Stands(id) == Relation(Get(hp[id], key), operation, value)
    IN SelectSeq(rows, Stands)

\* C29: for a well-formed text `key operator value`, data.filtered is the
\* subsequence of data.original, in order, of the rows whose field `key`
\* stands in the relation `operator` to the number `value`, for the ordering
\* operators and for = == != !==.
C29_FilteredIsTheRelatedRows ==
    [][(call'.invoked /\ ~ParseFailure(Trim(config'.filter)))
          => data'.filtered
                = Related(data.original, heap, StripQuotes(config'.filter.toks[1]),
                          config'.filter.toks[2], ToNumber(config'.filter.toks[3]))]_vars

\* the identity values of the rows of data.filtered, in order
Identities == [i \in 1..Len(data.filtered) |-> Get(heap[data.filtered[i]], row_index_key)]

\* C30: at the end of every cycle, after any sequence of passes of the
\* default filter, every row of data.filtered has a defined identity and no
\* two rows have the same one.
C30_IdentitiesDefinedAndDistinct ==
    Idle => /\ \A i \in 1..Len(Identities) : Identities[i] # Undef
            /\ \A i, j \in 1..Len(Identities) : i # j => Identities[i] # Identities[j]

\* C31: no cycle changes the original tier: data.original holds the same
\* rows in the same order, and every one of them keeps its fields and their
\* values, the identity field included.
C31_OriginalTierIsFrame ==
    [][/\ data'.original = data.original
       /\ \A i \in 1..Len(data.original) :
             heap'[data.original[i]] = heap[data.original[i]]]_vars

\* C32: after a schema resolution every index left in selected_columns is a
\* position of the new virtual column list and designates there the column
\* of the name it designated in the previous list.
C32_KeptIndexDesignatesSameColumn ==
    resolution.step = "resolved"
       => \A k \in 1..Len(resolution.selected) :
             /\ resolution.selected[k] < Len(resolution.virtual)
             /\ Referenced(resolution.virtual, resolution.selected[k])
                   = Referenced(resolution.before.virtual, resolution.selected[k])

\* C33: also when events overlap with pending filter calls and the calls
\* settle in any order, in every state with no cycle in flight the page is
\* within [0, max(0, ceil(len(virtual)/page_size) - 1)].
C33_PageClampedWhenQuiet ==
    Quiet => /\ 0 <= config.page
             /\ config.page <= Max(0, CeilDiv(Len(data.virtual), config.page_size) - 1)

\* C34: a click on the checkbox of a rendered row resolves, through
\* getPaginatedItem, the row last handed over at the clicked position, also
\* while a cycle is awaiting its filter routine and a page click has already
\* changed config.page.
C34_ClickResolvesRenderedRow ==
    pc = "idle"
       => \A index \in 0..(Len(emitted.body) - 1) :
             getPaginatedItem(This, index) = emitted.body[index + 1]

\* C35: when every call of the filter routine settles, a set
\* pendingConfigChange is followed by a cycle that hands the configuration
\* over and leaves the flag false, and a set pendingHeaderChange by a cycle
\* that hands the header over and leaves the flag false.
C35_NoFlagStaysSet ==
    /\ pendingConfigChange ~> (~pendingConfigChange /\ emitted.config)
    /\ pendingHeaderChange ~> (~pendingHeaderChange /\ emitted.header)

\* a header click arrived while a call was pending, and the first call to
\* settle handed the header over while another is still in flight
C35_Witness ==
    /\ pc = "idle"
    /\ call.invoked
    /\ emitted.header
    /\ ~pendingHeaderChange
    /\ config.sort_by # <<>>
    /\ inflight # <<>>

\* C36: in single-sort mode the sort specification holds at most one entry
\* after any sequence of sort-header clicks, and in both modes no column key
\* occurs twice in it.
C36_SortSpecificationWellFormed ==
    /\ config.sort_mode = "single" => Len(config.sort_by) <= 1
    /\ \A i, j \in 1..Len(config.sort_by) :
          config.sort_by[i].key = config.sort_by[j].key => i = j

\* in single-sort mode the header of column b was clicked twice, after a
\* click on the header of column a or none: the one entry is b's, descending
C36_Witness ==
    /\ Idle
    /\ config.sort_mode = "single"
    /\ config.sort_by = <<[key |-> "b", order |-> "desc"]>>

\* C37: the update() the constructor starts on a non-empty data.original
\* with no data.filtered supplied leaves a configured page within
\* [0, lastPage] of the dataset as it is.
C37_InitialPageKept ==
    [][(/\ pc = "constructed"
        /\ pc' = "idle"
        /\ data.original # <<>>
        /\ data.filtered = <<>>
        /\ 0 <= config.page
        /\ config.page <= CeilDiv(Len(data.original), config.page_size) - 1)
          => config'.page = config.page]_vars

\* the promise of call k was resolved by the response to its own request,
\* once, and its listener was removed then; the requests whose promise is
\* pending carry distinct IDs
OwnResponseOnly ==
    /\ \A k \in 1..Len(worker.calls) :
          LET c == worker.calls[k]
          IN /\ Len(c.resolutions) <= 1
             /\ c.listening <=> c.resolutions = <<>>
             /\ \A r \in 1..Len(c.resolutions) : c.resolutions[r].for = k
    /\ \A j, k \in Listening(worker) :
          worker.calls[j].id = worker.calls[k].id => j = k

WithinOneRound ==
    \A k \in 1..Len(worker.calls) :
       \A j \in worker.calls[k].pending : k - j < MAX_SAFE_INTEGER - 1

C39_RunNeverRejects ==
    worker.run.done
       => LET member == worker.run.member
              outcome == worker.run.outcome
          IN /\ ~outcome.rejected
             /\ outcome.response.id = worker.run.request.id
             /\ member.kind = "returns"
                   => /\ outcome.response.result = member.value
                      /\ outcome.response.error = Null
             /\ member.kind = "throws"
                   => /\ outcome.response.result = Null
                      /\ outcome.response.error = member.error.message
             /\ member.kind \in {"undefined", "falsy", "value"}
                   => /\ outcome.response.result = Null
                      /\ outcome.response.error = Null
                      /\ ~outcome.reported

====
